---- MODULE Spec2Model ----
(***************************************************************************)
(* geforcenow-awdl0: the daemon that keeps awdl0 down while GeForce NOW    *)
(* streams.  The model follows src/src/main.rs (the coordinator callbacks  *)
(* and run_daemon), src/src/process_monitor.rs (handle_notification and    *)
(* the fullscreen polling thread), src/src/interface.rs (the ioctl based   *)
(* actuator) and src/src/window_monitor.rs (has_fullscreen_window).        *)
(* Every access to a shared atomic and every ioctl is                      *)
(* one step, so the main run loop and the polling threads interleave as    *)
(* the threads of the program do.                                          *)
(***************************************************************************)
EXTENDS Integers, Sequences, FiniteSets, Bags, TLC

\* ------------------------------------------------------------------ bounds
MaxPid == 2         \* process identifiers the notifications may carry
MaxThreads == 2     \* polling threads that may be alive at the same time
MaxCount == 3       \* the history counters saturate at this value
MaxApps == 2        \* running applications listed when the daemon starts
MaxNameLen == 16    \* longest interface name handed to the actuator
FlagBits == 3       \* width of the flag words handed to the actuator
MaxCalls == 2       \* actuator calls made in a row on one interface
MaxWindows == 2     \* windows in the list the window server returns
MaxDev == 2         \* window bounds lie this many half units around the display's

\* ------------------------------------------------------- program constants
IFF_UP == 1         \* libc::IFF_UP
NameLimit == 15     \* validate_name: name.len() > 15 is too long
NUL == 0            \* the null byte CString::new rejects
AWDL_INTERFACE == <<97, 119, 100, 108, 48>>     \* "awdl0"
Tolerance == 2      \* the 1.0 of has_fullscreen_window; lengths are in half units

Pids == 1..MaxPid
\* The daemon only looks at the up bit of the flag word of awdl0
FlagWords == {0, IFF_UP}

VARIABLES
    current_pid,      \* ProcessMonitor.current_pid (0 if not running)
    is_streaming,     \* ProcessMonitor.is_streaming
    polling_active,   \* ProcessMonitor.polling_active
    gfn_streaming,    \* run_daemon's gfn_streaming
    running,          \* run_daemon's running flag (cleared by handle_signal)
    flags,            \* the kernel's flag word of awdl0
    main,             \* position and locals of the main run loop thread
    sampler,          \* the polling threads alive: a bag of their positions and locals
    h,                \* history: what has been observed so far
    act,              \* an actuator call made on its own, outside the daemon
    win               \* a has_fullscreen_window call made on its own

vars == <<current_pid, is_streaming, polling_active, gfn_streaming, running,
          flags, main, sampler, h, act, win>>

\* ---------------------------------------------------------------- actuator
IsUpFlag(f) == (f \div IFF_UP) % 2 = 1            \* (flags & IFF_UP) != 0
\* Mutation: bring_down writes a word with every bit cleared
ClearAll(f) == 0
\* Mutation: allow_up sets the bit next to the up bit
SetUpShifted(f) == f + 2 * IFF_UP

ClearUp(f) == IF IsUpFlag(f) THEN f - IFF_UP ELSE f   \* flags & !IFF_UP
SetUp(f) == IF IsUpFlag(f) THEN f ELSE f + IFF_UP     \* flags | IFF_UP

\* What get_flags / set_flags can return: the socket cannot be created, the
\* ioctl fails with ENXIO (NotFound), the ioctl fails otherwise, or it works.
IoctlOutcomes == {"ok", "NotFound", "Ioctl", "SocketCreation"}

\* Mutation: bring_down treats a missing interface as allow_up does
BringDownSoftNotFound(out, f) ==
    IF out = "NotFound" THEN "noop"
    ELSE IF out # "ok" THEN "err"
    ELSE IF ~IsUpFlag(f) THEN "noop" ELSE "write"

\* Mutation: bring_down writes the flag word whatever it read
BringDownAlwaysWrites(out, f) == IF out # "ok" THEN "err" ELSE "write"

\* bring_down after get_flags: "err" | "noop" (already down) | "write"
BringDownAfterGet(out, f) ==
    IF out # "ok" THEN "err" ELSE IF ~IsUpFlag(f) THEN "noop" ELSE "write"

\* allow_up after get_flags: NotFound is a soft success
AllowUpAfterGet(out, f) ==
    IF out = "NotFound" THEN "noop"
    ELSE IF out # "ok" THEN "err"
    ELSE IF IsUpFlag(f) THEN "noop" ELSE "write"

\* The flag word bring_down / allow_up hand to set_flags
NewFlags(op, f) == IF op = "bring_down" THEN ClearUp(f) ELSE SetUp(f)

\* ----------------------------------------------------------------- history
Bump(n) == IF n < MaxCount THEN n + 1 ELSE n

NoScenario ==
    [samples |-> 0, prevFs |-> FALSE, rise |-> 0, fall |-> 0,
     nStarted |-> 0, nEnded |-> 0, cbDown |-> 0, cbUp |-> 0,
     ev |-> "none", pair |-> "none"]

\* The counters describe the run only while it is a single launch, possibly
\* followed by the termination of that process; afterwards they are dropped.
Norm(r) ==
    IF r.scen = "off"
    THEN [r EXCEPT !.scenPid = 0, !.sc = NoScenario]
    ELSE r

\* The callback is handed event e after the events summed up in ev: the last
\* event of a sequence Launched, (StreamStarted, StreamEnded)*, Terminated, or
\* "violated" once an event has come out of that order
Protocol(ev, e) ==
    IF ev = "none" /\ e = "Launched" THEN e
    ELSE IF ev \in {"Launched", "StreamEnded"} /\ e = "StreamStarted" THEN e
    ELSE IF ev = "StreamStarted" /\ e = "StreamEnded" THEN e
    ELSE IF ev \in {"Launched", "StreamEnded"} /\ e = "Terminated" THEN e
    ELSE "violated"

Delivered(r, e) == Norm([r EXCEPT !.sc.ev = Protocol(@, e)])

\* bring_down / allow_up calls as pairs: "lowered" after a bring_down, "none"
\* after the allow_up that follows it, "unpaired" once an allow_up was issued
\* with no bring_down since the allow_up before it
Paired(pair, op) ==
    IF pair = "unpaired" \/ op = "is_up" THEN pair
    ELSE IF op = "bring_down" THEN "lowered"
    ELSE IF pair = "lowered" THEN "none"
    ELSE "unpaired"

\* An actuator call is issued by `who`: "process", "interface" or "shutdown"
Issue(r, op, who) ==
    Norm([r EXCEPT
        !.anyCall = TRUE,
        !.sc.pair = Paired(@, op),
        !.sc.cbDown = IF who = "process" /\ op = "bring_down" THEN Bump(@) ELSE @,
        !.sc.cbUp = IF who = "process" /\ op = "allow_up" THEN Bump(@) ELSE @])

\* A bring_down or allow_up call returns (with Ok or with an error)
Returned(r, op) == [r EXCEPT !.lastCall = op]

\* -------------------------------------------------------------------- init
\* No actuator call is made outside the daemon
NoCall == [pc |-> "none"]
\* has_fullscreen_window is a sample of the polling thread inside the daemon
NoQuery == [pc |-> "none"]

NoLocals ==
    [pc |-> "idle", kind |-> "none", pid |-> 0, stale |-> FALSE, fl |-> 0,
     ret |-> "none", calls |-> <<>>, err |-> FALSE, seen |-> "none",
     apps |-> <<>>]

\* A polling thread as thread::spawn creates it.  The pid and bundle id it
\* captures only reach the window query and the log lines, so they are not kept.
\* err: the actuator call of the callback that just returned failed (logged).
\* stopped: the process the thread was started for has terminated (a record of
\* the run, not read by the program).
NewThread == [pc |-> "top", fs |-> FALSE, fl |-> 0, err |-> FALSE,
              stopped |-> FALSE]

\* Mutation: a new monitor starts with its polling flag set
NewMonitorPolling ==
    [current_pid |-> 0, is_streaming |-> FALSE, polling_active |-> TRUE]

\* ProcessMonitor::new: current_pid AtomicI32::new(0), is_streaming and
\* polling_active AtomicBool::new(false); the callback is stored, not called
NewMonitor ==
    [current_pid |-> 0, is_streaming |-> FALSE, polling_active |-> FALSE]

\* run_daemon is entered: nothing is installed yet; the atomics have the values
\* their constructors give them.  watch: whether the run keeps the record of
\* the threads whose process has terminated.
Boot(watch) ==
    /\ current_pid = NewMonitor.current_pid
    /\ is_streaming = NewMonitor.is_streaming
    /\ polling_active = NewMonitor.polling_active
    /\ gfn_streaming = FALSE
    /\ running = TRUE
    /\ flags \in FlagWords
    /\ main = [NoLocals EXCEPT !.pc = "boot"]
    /\ sampler = EmptyBag
    /\ h = [lastCall |-> "none", anyCall |-> FALSE,
            everFs |-> FALSE, lastHandled |-> "none", scen |-> "fresh",
            scenPid |-> 0, sc |-> NoScenario, watch |-> watch]
    /\ act = NoCall
    /\ win = NoQuery

Init == Boot(FALSE)

Threads == BagToSet(sampler)


\* ------------------------------------------------- the main run loop thread
\* The handler now running issues bring_down or allow_up and continues at ret
CallMain(m, op, ret) ==
    [m EXCEPT !.pc = IF op = "bring_down" THEN "bd_get" ELSE "au_get",
              !.ret = ret, !.calls = Append(@, op)]

ScenOnLaunch(r, p) ==
    IF r.scen = "fresh"
    THEN Delivered([r EXCEPT !.scen = "launched", !.scenPid = p], "Launched")
    ELSE Norm([r EXCEPT !.scen = "off"])

ScenOnTerminate(r, p) ==
    IF r.scen = "launched" /\ r.scenPid = p
    THEN [r EXCEPT !.scen = "terminated"]
    ELSE Norm([r EXCEPT !.scen = "off"])

\* Mutation: the Launched arm disables awdl0 at once instead of waiting for
\* streaming to start
LaunchedStoreDisables(p, kind, apps) ==
    /\ current_pid' = p
    /\ gfn_streaming' = TRUE
    /\ main' = [NoLocals EXCEPT !.pc = "l_poll", !.kind = kind, !.pid = p,
                                !.apps = apps]
    /\ h' = ScenOnLaunch(h, p)
    /\ UNCHANGED <<win, act, is_streaming, polling_active, running, flags, sampler>>

\* current_pid.store(pid); callback(Launched): the Launched arm only logs.
\* kind: "startup" from check_running_applications, "launch" from a notification
LaunchedStore(p, kind, apps) ==
    /\ current_pid' = p
    /\ main' = [NoLocals EXCEPT !.pc = "l_poll", !.kind = kind, !.pid = p,
                                !.apps = apps]
    /\ h' = ScenOnLaunch(h, p)
    /\ UNCHANGED <<win, act, is_streaming, polling_active, gfn_streaming, running, flags,
                   sampler>>

\* workspace.runningApplications(): the applications running when the daemon
\* starts, each with its pid and whether its bundle id is the target's
RunningApps ==
    UNION {[1..n -> [target : BOOLEAN, pid : Pids]] : n \in 0..MaxApps}

\* Mutation: the running applications are never looked at
NoTarget(apps) == 0

\* for app in running_apps { if bundle_id == target { ...; return } }: the pid
\* of the first running application with the target's bundle id, 0 if none
FirstTarget(apps) ==
    IF \E i \in DOMAIN apps : apps[i].target
    THEN apps[CHOOSE i \in DOMAIN apps :
                 /\ apps[i].target
                 /\ \A j \in DOMAIN apps : apps[j].target => i <= j].pid
    ELSE 0

\* libc::signal(SIGTERM, handle_signal); libc::signal(SIGINT, handle_signal)
InstallSignalHandlers ==
    /\ main.pc = "boot"
    /\ main' = [main EXCEPT !.pc = "installed"]
    /\ UNCHANGED <<win, act, current_pid, is_streaming, polling_active, gfn_streaming,
                   running, flags, sampler, h>>

\* RUNNING.store(pointer to the running flag), after the handlers are
\* installed; the controller, gfn_streaming and the monitor are then built
StoreRunning ==
    /\ main.pc = "installed"
    /\ main' = [main EXCEPT !.pc = "start"]
    /\ UNCHANGED <<win, act, current_pid, is_streaming, polling_active, gfn_streaming,
                   running, flags, sampler, h>>

\* ProcessMonitor::start: check_running_applications; register_notifications
\* follows (the observers fire from the run loop only)
Start ==
    /\ main.pc = "start"
    /\ \E apps \in RunningApps :
         LET p == FirstTarget(apps) IN
         IF p = 0
         THEN /\ main' = [NoLocals EXCEPT !.pc = "im_start", !.kind = "startup",
                                          !.apps = apps]
              /\ UNCHANGED <<win, act, current_pid, is_streaming, polling_active,
                             gfn_streaming, running, flags, sampler, h>>
         ELSE LaunchedStore(p, "startup", apps)

\* handle_notification, is_launch: the launch notification of the target
LaunchNotification(p) ==
    /\ main.pc = "idle"
    /\ BagCardinality(sampler) < MaxThreads
    /\ LaunchedStore(p, "launch", <<>>)

\* start_fullscreen_polling: polling_active.store(true); thread::spawn
StartPolling ==
    /\ main.pc = "l_poll"
    /\ polling_active' = TRUE
    /\ sampler' = sampler (+) SetToBag({NewThread})
    /\ main' = [main EXCEPT !.pc = IF main.kind = "startup" THEN "im_start"
                                                             ELSE "ret"]
    /\ UNCHANGED <<win, act, current_pid, is_streaming, gfn_streaming, running, flags, h>>

\* interface_monitor.start(): on Ok the run loop is entered; on Err run_daemon
\* returns the error, main reports it and the process exits with status 1
InterfaceMonitorStart ==
    /\ main.pc = "im_start"
    /\ \E ok \in BOOLEAN :
         IF ok
         THEN /\ main' = NoLocals
              /\ sampler' = sampler
              /\ h' = [h EXCEPT !.lastHandled = IF main.pid # 0 THEN "launch"
                                                                ELSE @]
         ELSE /\ main' = [NoLocals EXCEPT !.pc = "failed"]
              /\ sampler' = EmptyBag
              /\ h' = h
    /\ UNCHANGED <<win, act, current_pid, is_streaming, polling_active,
                   gfn_streaming, running, flags>>

\* The threads of B, each recorded as one whose process has terminated
Stopped(B) ==
    LET mark(t) == [t EXCEPT !.stopped = TRUE]
        S == {mark(t) : t \in BagToSet(B)}
    IN [u \in S |-> CopiesIn(u, B)
                    + (IF u.stopped THEN CopiesIn([u EXCEPT !.stopped = FALSE], B)
                       ELSE 0)]

\* handle_notification, terminate arm: polling_active.store(false).  The
\* thread is not joined.  When the process is the only one launched so far, the
\* thread alive is the one started for it.
TerminateNotification(p) ==
    /\ main.pc = "idle"
    /\ polling_active' = FALSE
    /\ main' = [NoLocals EXCEPT !.pc = "t_swap", !.kind = "term", !.pid = p,
                                !.stale = (p # current_pid)]
    /\ h' = ScenOnTerminate(h, p)
    /\ sampler' = IF h.watch /\ h.scen = "launched" /\ h.scenPid = p
                  THEN Stopped(sampler) ELSE sampler
    /\ UNCHANGED <<win, act, current_pid, is_streaming, gfn_streaming, running, flags>>

\* if is_streaming.swap(false) { callback(StreamEnded) }
TerminateSwap ==
    /\ main.pc = "t_swap"
    /\ is_streaming' = FALSE
    /\ main' = [main EXCEPT !.pc = IF is_streaming THEN "t_ended" ELSE "t_pid"]
    /\ UNCHANGED <<win, act, current_pid, polling_active, gfn_streaming, running, flags,
                   sampler, h>>

\* The StreamEnded arm of the process callback, called by the terminate arm:
\* gfn_streaming.store(false); controller.allow_up
TerminateStreamEnded ==
    /\ main.pc = "t_ended"
    /\ gfn_streaming' = FALSE
    /\ main' = CallMain(main, "allow_up", "t_pid")
    /\ h' = Issue(Delivered(h, "StreamEnded"), "allow_up", "process")
    /\ UNCHANGED <<win, act, current_pid, is_streaming, polling_active, running, flags,
                   sampler>>

\* current_pid.store(0)
TerminateClearPid ==
    /\ main.pc = "t_pid"
    /\ current_pid' = 0
    /\ main' = [main EXCEPT !.pc = "t_term"]
    /\ UNCHANGED <<win, act, is_streaming, polling_active, gfn_streaming, running, flags,
                   sampler, h>>

\* Mutation: the Terminated arm releases the interface without looking at the
\* value gfn_streaming.swap(false) returned
TerminatedAllowsAlways(was) == TRUE

\* The Terminated arm: does gfn_streaming.swap(false) lead to allow_up?
TerminatedAllows(was) == was

\* callback(Terminated): if gfn_streaming.swap(false) { controller.allow_up }
TerminatedCallback ==
    /\ main.pc = "t_term"
    /\ gfn_streaming' = FALSE
    /\ IF TerminatedAllows(gfn_streaming)
       THEN /\ main' = CallMain(main, "allow_up", "ret")
            /\ h' = Issue(Delivered(h, "Terminated"), "allow_up", "process")
       ELSE /\ main' = [main EXCEPT !.pc = "ret"]
            /\ h' = Delivered(h, "Terminated")
    /\ UNCHANGED <<win, act, current_pid, is_streaming, polling_active, running, flags,
                   sampler>>

\* Mutation: the interface callback acts without looking at gfn_streaming
LinkActsAlways(streaming) == TRUE

\* Mutation: the test of the streaming flag is inverted
LinkActsWhenIdle(streaming) == ~streaming

\* if gfn_streaming.load(SeqCst): only act if GeForce NOW is streaming
LinkActs(streaming) == streaming

\* The StateChanged arm of the interface callback
\* Mutation: a link change seen while not streaming releases the interface
LinkChangedReleases ==
    /\ main.pc = "idle"
    /\ IF LinkActs(gfn_streaming)
       THEN /\ main' = [NoLocals EXCEPT !.pc = "k_isup", !.kind = "link",
                                        !.seen = "streaming",
                                        !.calls = <<"is_up">>]
            /\ h' = Issue(h, "is_up", "interface")
       ELSE /\ main' = CallMain([NoLocals EXCEPT !.kind = "link",
                                                 !.seen = "idle"],
                                "allow_up", "ret")
            /\ h' = Issue(h, "allow_up", "interface")
    /\ UNCHANGED <<win, act, current_pid, is_streaming, polling_active,
                   gfn_streaming, running, flags, sampler>>

LinkChanged ==
    /\ main.pc = "idle"
    /\ IF LinkActs(gfn_streaming)
       THEN /\ main' = [NoLocals EXCEPT !.pc = "k_isup", !.kind = "link",
                                        !.seen = "streaming",
                                        !.calls = <<"is_up">>]
            /\ h' = Issue(h, "is_up", "interface")
       ELSE /\ main' = [NoLocals EXCEPT !.pc = "ret", !.kind = "link",
                                        !.seen = "idle"]
            /\ h' = h
    /\ UNCHANGED <<win, act, current_pid, is_streaming, polling_active, gfn_streaming,
                   running, flags, sampler>>

\* is_up: get_flags(name)?, then (flags & IFF_UP) != 0
IsUpResult(out, f) ==
    IF out # "ok" THEN "err" ELSE IF IsUpFlag(f) THEN "true" ELSE "false"

\* Mutation: every successful is_up query brings the interface down
LinkBringsDownUnlessErr(res) == res # "err"

\* Mutation: the link-change handler only logs the state of the interface
LinkNeverBringsDown(res) == FALSE

\* match controller.is_up(..): only Ok(true) brings the interface down again
LinkBringsDown(res) == res = "true"

LinkIsUp ==
    /\ main.pc = "k_isup"
    /\ \E out \in IoctlOutcomes :
         LET res == IsUpResult(out, flags) IN
         IF LinkBringsDown(res)
         THEN /\ main' = [CallMain(main, "bring_down", "ret") EXCEPT !.seen = res]
              /\ h' = Issue(h, "bring_down", "interface")
         ELSE /\ main' = [main EXCEPT !.pc = "ret", !.seen = res]
              /\ h' = h
    /\ UNCHANGED <<win, act, current_pid, is_streaming, polling_active, gfn_streaming,
                   running, flags, sampler>>

\* bring_down / allow_up on the main thread, up to the get_flags ioctl
MainGetFlags ==
    /\ main.pc \in {"bd_get", "au_get"}
    /\ \E out \in IoctlOutcomes :
         LET d == IF main.pc = "bd_get" THEN BringDownAfterGet(out, flags)
                                        ELSE AllowUpAfterGet(out, flags)
         IN IF d = "write"
            THEN /\ main' = [main EXCEPT
                               !.pc = IF main.pc = "bd_get" THEN "bd_set"
                                                            ELSE "au_set",
                               !.fl = flags]
                 /\ h' = h
            ELSE /\ main' = [main EXCEPT !.pc = main.ret, !.ret = "none",
                                         !.err = @ \/ (d = "err")]
                 /\ h' = Returned(h, IF main.pc = "bd_get" THEN "bring_down"
                                                           ELSE "allow_up")
    /\ UNCHANGED <<win, act, current_pid, is_streaming, polling_active, gfn_streaming,
                   running, flags, sampler>>

\* ... and its set_flags ioctl, with the flag word computed from what was read
MainSetFlags ==
    /\ main.pc \in {"bd_set", "au_set"}
    /\ LET op == IF main.pc = "bd_set" THEN "bring_down" ELSE "allow_up" IN
       \E out \in IoctlOutcomes :
         /\ flags' = IF out = "ok" THEN NewFlags(op, main.fl) ELSE flags
         /\ main' = [main EXCEPT !.pc = main.ret, !.ret = "none", !.fl = 0,
                                 !.err = @ \/ (out # "ok")]
         /\ h' = Returned(h, op)
    /\ UNCHANGED <<win, act, current_pid, is_streaming, polling_active, gfn_streaming,
                   running, sampler>>

\* The handler returns to the run loop
Return ==
    /\ main.pc = "ret"
    /\ main' = NoLocals
    /\ h' = [h EXCEPT !.lastHandled =
                IF main.kind \in {"launch", "term"} THEN main.kind ELSE @]
    /\ UNCHANGED <<win, act, current_pid, is_streaming, polling_active, gfn_streaming,
                   running, flags, sampler>>

\* while running.load(SeqCst) { runUntilDate(..) } ends
RunLoopExit ==
    /\ main.pc = "idle"
    /\ ~running
    /\ main' = [NoLocals EXCEPT !.pc = "s_load", !.kind = "shutdown"]
    /\ UNCHANGED <<win, act, current_pid, is_streaming, polling_active, gfn_streaming,
                   running, flags, sampler, h>>

\* Mutation: the shutdown path calls allow_up without reading gfn_streaming
ShutdownAllowsAlways(streaming) == TRUE

\* If GeForce NOW was streaming when we shut down, allow awdl0 back up
ShutdownAllows(streaming) == streaming

ShutdownLoad ==
    /\ main.pc = "s_load"
    /\ IF ShutdownAllows(gfn_streaming)
       THEN /\ main' = [CallMain(main, "allow_up", "s_exit")
                           EXCEPT !.seen = IF gfn_streaming THEN "streaming"
                                                            ELSE "idle"]
            /\ h' = Issue(h, "allow_up", "shutdown")
       ELSE /\ main' = [main EXCEPT !.pc = "s_exit",
                           !.seen = IF gfn_streaming THEN "streaming"
                                                     ELSE "idle"]
            /\ h' = h
    /\ UNCHANGED <<win, act, current_pid, is_streaming, polling_active, gfn_streaming,
                   running, flags, sampler>>

\* run_daemon returns Ok(()) and the process exits, its threads with it
Exit ==
    /\ main.pc = "s_exit"
    /\ main' = [NoLocals EXCEPT !.pc = "exited"]
    /\ sampler' = EmptyBag
    /\ UNCHANGED <<win, act, current_pid, is_streaming, polling_active, gfn_streaming,
                   running, flags, h>>

\* ------------------------------------------------------------ environment
\* RUNNING.load() in handle_signal: 0 until run_daemon has stored the pointer
RunningStored == main.pc # "installed"

\* handle_signal: SIGTERM or SIGINT, delivered once the handlers are installed.
\* if ptr != 0 { running.store(false) }: with RUNNING still 0 the handler
\* returns without a store (seen "null": what it loaded, until run_daemon
\* starts the monitor).  Only the run loop's condition reads the flag, so the
\* store is taken when that can follow.
Signal ==
    /\ main.pc \in {"installed", "start", "idle"}
    /\ running
    /\ IF RunningStored
       THEN running' = FALSE /\ main' = main
       ELSE running' = running /\ main' = [main EXCEPT !.seen = "null"]
    /\ UNCHANGED <<win, act, current_pid, is_streaming, polling_active, gfn_streaming,
                   flags, sampler, h>>

\* macOS brings awdl0 back up on its own
SystemBringsUp ==
    /\ main.pc \notin {"exited", "failed"}
    /\ ~IsUpFlag(flags)
    /\ flags' = SetUp(flags)
    /\ UNCHANGED <<win, act, current_pid, is_streaming, polling_active, gfn_streaming,
                   running, main, sampler, h>>

\* ------------------------------------------------- the polling threads
\* Thread t moves on to rec; Exits(t): its loop ends and the thread is gone
Set(t, rec) == sampler' = (sampler (-) SetToBag({t})) (+) SetToBag({rec})
Exits(t) == sampler' = sampler (-) SetToBag({t})

\* A sample is taken: the history of samples of the single launched process
Sampled(r, fs) ==
    Norm([r EXCEPT
        !.everFs = @ \/ fs,
        !.sc.samples = Bump(@),
        !.sc.prevFs = fs,
        !.sc.rise = IF fs /\ ~r.sc.prevFs THEN Bump(@) ELSE @,
        !.sc.fall = IF ~fs /\ r.sc.prevFs THEN Bump(@) ELSE @])

\* while polling_active.load(SeqCst) {
PollTop(t) ==
    /\ t.pc = "top"
    /\ IF polling_active
       THEN Set(t, [t EXCEPT !.pc = "sleep", !.err = FALSE])
       ELSE Exits(t)
    /\ UNCHANGED <<win, act, current_pid, is_streaming, polling_active, gfn_streaming,
                   running, flags, main, h>>

\* thread::sleep(POLL_INTERVAL); if !polling_active.load() { break }
\* let is_fullscreen = window_monitor::has_fullscreen_window(pid)
PollWake(t) ==
    /\ t.pc = "sleep"
    /\ IF polling_active
       THEN \E fs \in BOOLEAN :
              /\ Set(t, [t EXCEPT !.pc = "load", !.fs = fs])
              /\ h' = Sampled(h, fs)
       ELSE /\ Exits(t)
            /\ h' = h
    /\ UNCHANGED <<win, act, current_pid, is_streaming, polling_active, gfn_streaming,
                   running, flags, main>>

\* Mutation: the StreamStarted arm does not record the intent before it calls
\* bring_down
StreamStartedNoStore(t) ==
    /\ t.pc = "cb_started"
    /\ Set(t, [t EXCEPT !.pc = "bd_get"])
    /\ h' = Issue(Delivered([h EXCEPT !.sc.nStarted = Bump(@)], "StreamStarted"),
                  "bring_down", "process")
    /\ UNCHANGED <<win, act, current_pid, is_streaming, polling_active, running, flags,
                   main, gfn_streaming>>

\* Mutation: level-triggered, every fullscreen sample starts a stream
EdgeLevelTriggered(is_fullscreen, was_streaming) ==
    IF is_fullscreen THEN "store_t"
    ELSE IF was_streaming THEN "store_f"
    ELSE "top"

\* The edge the polling loop sees in a sample, given is_streaming
Edge(is_fullscreen, was_streaming) ==
    IF is_fullscreen /\ ~was_streaming THEN "store_t"
    ELSE IF ~is_fullscreen /\ was_streaming THEN "store_f"
    ELSE "top"

\* let was_streaming = is_streaming.load(SeqCst)
PollLoad(t) ==
    /\ t.pc = "load"
    /\ Set(t, [t EXCEPT !.pc = Edge(t.fs, is_streaming),
                                 !.fs = FALSE])
    /\ UNCHANGED <<win, act, current_pid, is_streaming, polling_active, gfn_streaming,
                   running, flags, main, h>>

\* is_streaming.store(true, SeqCst)
PollStoreTrue(t) ==
    /\ t.pc = "store_t"
    /\ is_streaming' = TRUE
    /\ Set(t, [t EXCEPT !.pc = "cb_started"])
    /\ UNCHANGED <<win, act, current_pid, polling_active, gfn_streaming, running, flags,
                   main, h>>

\* callback(StreamStarted): gfn_streaming.store(true); controller.bring_down
StreamStartedCallback(t) ==
    /\ t.pc = "cb_started"
    /\ gfn_streaming' = TRUE
    /\ Set(t, [t EXCEPT !.pc = "bd_get"])
    /\ h' = Issue(Delivered([h EXCEPT !.sc.nStarted = Bump(@)], "StreamStarted"),
                  "bring_down", "process")
    /\ UNCHANGED <<win, act, current_pid, is_streaming, polling_active, running, flags,
                   main>>

\* is_streaming.store(false, SeqCst)
PollStoreFalse(t) ==
    /\ t.pc = "store_f"
    /\ is_streaming' = FALSE
    /\ Set(t, [t EXCEPT !.pc = "cb_ended"])
    /\ UNCHANGED <<win, act, current_pid, polling_active, gfn_streaming, running, flags,
                   main, h>>

\* callback(StreamEnded): gfn_streaming.store(false); controller.allow_up
StreamEndedCallback(t) ==
    /\ t.pc = "cb_ended"
    /\ gfn_streaming' = FALSE
    /\ Set(t, [t EXCEPT !.pc = "au_get"])
    /\ h' = Issue(Delivered([h EXCEPT !.sc.nEnded = Bump(@)], "StreamEnded"),
                  "allow_up", "process")
    /\ UNCHANGED <<win, act, current_pid, is_streaming, polling_active, running, flags,
                   main>>

\* bring_down / allow_up on a polling thread, up to the get_flags ioctl
PollGetFlags(t) ==
    /\ t.pc \in {"bd_get", "au_get"}
    /\ \E out \in IoctlOutcomes :
         LET d == IF t.pc = "bd_get"
                  THEN BringDownAfterGet(out, flags)
                  ELSE AllowUpAfterGet(out, flags)
         IN IF d = "write"
            THEN /\ Set(t, [t EXCEPT
                              !.pc = IF t.pc = "bd_get" THEN "bd_set"
                                                        ELSE "au_set",
                              !.fl = flags])
                 /\ h' = h
            ELSE /\ Set(t, [t EXCEPT !.pc = "top", !.err = (d = "err")])
                 /\ h' = Returned(h, IF t.pc = "bd_get" THEN "bring_down"
                                                        ELSE "allow_up")
    /\ UNCHANGED <<win, act, current_pid, is_streaming, polling_active, gfn_streaming,
                   running, flags, main>>

\* ... and its set_flags ioctl
PollSetFlags(t) ==
    /\ t.pc \in {"bd_set", "au_set"}
    /\ LET op == IF t.pc = "bd_set" THEN "bring_down" ELSE "allow_up" IN
       /\ \E out \in IoctlOutcomes :
            /\ flags' = IF out = "ok" THEN NewFlags(op, t.fl) ELSE flags
            /\ Set(t, [t EXCEPT !.pc = "top", !.fl = 0, !.err = (out # "ok")])
       /\ h' = Returned(h, op)
    /\ UNCHANGED <<win, act, current_pid, is_streaming, polling_active, gfn_streaming,
                   running, main>>

\* --------------------------------------- the actuator called on its own
\* Interface names: bytes of a letter, with at most one null byte among them
NameOf(n, k) == [i \in 1..n |-> IF i = k THEN NUL ELSE 97]
Names == {NameOf(n, k) : n \in 0..MaxNameLen, k \in 0..MaxNameLen}

\* Flag words are i16 in the program; FlagBits bits of them are kept, signed
WideFlagWords == -(2 ^ (FlagBits - 1)) .. (2 ^ (FlagBits - 1)) - 1

\* Mutation: names of exactly the limit are too long as well
TooLongFromLimit(name) == Len(name) >= NameLimit

\* if name.len() > 15
TooLong(name) == Len(name) > NameLimit

\* validate_name: the length check, then CString::new, which fails on a null byte
validate_name(name) ==
    IF TooLong(name) THEN "NameTooLong"
    ELSE IF \E i \in DOMAIN name : name[i] = NUL THEN "InvalidName"
    ELSE "ok"

\* last_os_error() after a failed ioctl: ENXIO is NotFound, anything else Ioctl
IoctlError(errno) == IF errno = "ENXIO" THEN "NotFound" ELSE "Ioctl"

ReadyCall(name, first) ==
    [pc |-> "ready", name |-> name, first |-> first, op |-> "none",
     stage |-> "none", fl |-> 0, sys |-> <<>>, os |-> "none", val |-> "none",
     wrote |-> FALSE, res |-> "none", hist |-> <<>>]

\* The call returns res
Finish(a, res) == [a EXCEPT !.pc = "done", !.res = res, !.fl = 0]

\* get_flags has returned out ("ok" or the error): what the call does next
AfterGetFlags(a, out, f) ==
    IF a.op = "is_up"
    THEN LET r == IsUpResult(out, f) IN
         Finish(a, IF r = "err" THEN out ELSE IF r = "true" THEN "Ok(true)"
                                                         ELSE "Ok(false)")
    ELSE LET d == IF a.op = "bring_down" THEN BringDownAfterGet(out, f)
                                         ELSE AllowUpAfterGet(out, f)
         IN IF d = "err" THEN Finish(a, out)
            ELSE IF d = "noop" THEN Finish(a, "Ok")
            ELSE [a EXCEPT !.pc = "socket", !.stage = "set", !.fl = f]

\* set_flags has returned out: Self::set_flags(name, new_flags)?; Ok(())
AfterSetFlags(a, out) == Finish(a, IF out = "ok" THEN "Ok" ELSE out)

AfterSyscalls(a, out, f) ==
    IF a.stage = "get" THEN AfterGetFlags(a, out, f) ELSE AfterSetFlags(a, out)

\* controller.bring_down(name) / allow_up(name) / is_up(name) is called
ActCall(op) ==
    /\ act.pc = "ready"
    /\ Len(act.hist) < MaxCalls
    /\ act' = [act EXCEPT !.pc = "socket", !.op = op, !.stage = "get"]
    /\ UNCHANGED <<win, current_pid, is_streaming, polling_active, gfn_streaming,
                   running, flags, main, sampler, h>>

\* let sock = Self::create_socket()?
ActSocket ==
    /\ act.pc = "socket"
    /\ \E ok \in BOOLEAN :
         LET a == [act EXCEPT !.sys = Append(@, "socket")] IN
         act' = IF ok THEN [a EXCEPT !.pc = "validate"]
                      ELSE AfterSyscalls(a, "SocketCreation", flags)
    /\ UNCHANGED <<win, current_pid, is_streaming, polling_active, gfn_streaming,
                   running, flags, main, sampler, h>>

\* let ifname = Self::validate_name(name)?
ActValidate ==
    /\ act.pc = "validate"
    /\ LET v == validate_name(act.name)
           a == [act EXCEPT !.val = v]
       IN act' = IF v = "ok" THEN [a EXCEPT !.pc = "ioctl"]
                             ELSE AfterSyscalls(a, v, flags)
    /\ UNCHANGED <<win, current_pid, is_streaming, polling_active, gfn_streaming,
                   running, flags, main, sampler, h>>

\* libc::ioctl(sock, SIOCGIFFLAGS / SIOCSIFFLAGS, &mut ifr) and what follows
ActIoctl ==
    /\ act.pc = "ioctl"
    /\ \E errno \in {"none", "ENXIO", "EPERM"} :
         LET out == IF errno = "none" THEN "ok" ELSE IoctlError(errno)
             a == [act EXCEPT
                     !.sys = Append(@, IF act.stage = "get" THEN "SIOCGIFFLAGS"
                                                          ELSE "SIOCSIFFLAGS"),
                     !.os = IF errno = "none" THEN @ ELSE out,
                     !.wrote = @ \/ (act.stage = "set" /\ errno = "none")]
         IN /\ act' = AfterSyscalls(a, out, flags)
            /\ flags' = IF act.stage = "set" /\ errno = "none"
                        THEN NewFlags(act.op, act.fl)
                        ELSE flags
    /\ UNCHANGED <<win, current_pid, is_streaming, polling_active, gfn_streaming,
                   running, main, sampler, h>>

\* The caller has the result; the next call can follow
ActNext ==
    /\ act.pc = "done"
    /\ act' = [ReadyCall(act.name, act.first) EXCEPT
                 !.hist = Append(act.hist,
                                 [op |-> act.op, res |-> act.res,
                                  os |-> act.os, after |-> flags])]
    /\ UNCHANGED <<win, current_pid, is_streaming, polling_active, gfn_streaming,
                   running, flags, main, sampler, h>>

\* ------------------------------------------------------- specifications
MainStep ==
    \/ InstallSignalHandlers
    \/ StoreRunning
    \/ Start
    \/ \E p \in Pids : LaunchNotification(p)
    \/ StartPolling
    \/ InterfaceMonitorStart
    \/ \E p \in Pids : TerminateNotification(p)
    \/ TerminateSwap
    \/ TerminateStreamEnded
    \/ TerminateClearPid
    \/ TerminatedCallback
    \/ LinkChanged
    \/ LinkIsUp
    \/ MainGetFlags
    \/ MainSetFlags
    \/ Return
    \/ RunLoopExit
    \/ ShutdownLoad
    \/ Exit

PollStep(t) ==
    \/ PollTop(t)
    \/ PollWake(t)
    \/ PollLoad(t)
    \/ PollStoreTrue(t)
    \/ StreamStartedCallback(t)
    \/ PollStoreFalse(t)
    \/ StreamEndedCallback(t)
    \/ PollGetFlags(t)
    \/ PollSetFlags(t)

EnvStep == Signal \/ SystemBringsUp

\* The places of the polling loop a thread can be at
PollPlaces ==
    {"top", "sleep", "load", "store_t", "cb_started", "store_f", "cb_ended",
     "bd_get", "bd_set", "au_get", "au_set"}

\* A polling thread is between iterations (or does not exist)
PollAtRest(t) == t.pc \in {"top", "sleep"}
\* The main thread is in the run loop, between handlers
MainAtRest == main.pc \in {"idle", "exited"}
AtRest == MainAtRest /\ \A t \in Threads : PollAtRest(t)

\* The program: the run loop and the polling threads run concurrently
Next ==
    \/ MainStep
    \/ \E t \in Threads : PollStep(t)
    \/ EnvStep

Spec == Init /\ [][Next]_vars

\* Events processed one after another: a handler or a polling iteration runs
\* to completion before another thread of the program takes a step
NextSeq ==
    \/ (\A t \in Threads : PollAtRest(t)) /\ MainStep
    \/ \E t \in Threads :
         /\ main.pc \in {"idle", "exited"}
         /\ \A u \in Threads \ {t} : PollAtRest(u)
         /\ sampler[t] = 1 \/ PollAtRest(t)
         /\ PollStep(t)
    \/ EnvStep

SpecSeq == Init /\ [][NextSeq]_vars

\* The actuator on its own: calls made in a row on one interface, by one
\* caller, with nothing else writing the flag word.  Either the daemon's
\* interface with any flag word, or any name with the up bit set or clear.
InitActuator ==
    /\ current_pid = 0
    /\ is_streaming = FALSE
    /\ polling_active = FALSE
    /\ gfn_streaming = FALSE
    /\ running = TRUE
    /\ main = [NoLocals EXCEPT !.pc = "none"]
    /\ sampler = EmptyBag
    /\ h = [lastCall |-> "none", anyCall |-> FALSE,
            everFs |-> FALSE, lastHandled |-> "none", scen |-> "fresh",
            scenPid |-> 0, sc |-> NoScenario, watch |-> FALSE]
    /\ \/ \E w \in WideFlagWords :
            flags = w /\ act = ReadyCall(AWDL_INTERFACE, w)
       \/ \E name \in Names, w \in FlagWords :
            flags = w /\ act = ReadyCall(name, w)
    /\ win = NoQuery

NextActuator ==
    \/ \E op \in {"bring_down", "allow_up", "is_up"} : ActCall(op)
    \/ ActSocket
    \/ ActValidate
    \/ ActIoctl
    \/ ActNext

SpecActuator == InitActuator /\ [][NextActuator]_vars

\* ------------------------------------- has_fullscreen_window on its own
\* Option<T>: None is the empty sequence, Some(x) the sequence of x
Option(S) == {<<>>} \cup {<<x>> : x \in S}

\* CGDisplay::main().bounds(): the main display, whose origin is (0, 0) in the
\* global coordinates windows are placed in.  Lengths are in half units.
Displays == {[x |-> 0, y |-> 0, width |-> w, height |-> 6] : w \in {6, 8}}

\* kCGWindowBounds of a window: at, near or away from the display's bounds
Bounds ==
    [X : -MaxDev..MaxDev, Y : -MaxDev..MaxDev,
     Width : (6 - MaxDev)..(8 + MaxDev), Height : (6 - MaxDev)..(6 + MaxDev)]

\* An entry of the window list: a null pointer, or a dictionary that may lack
\* kCGWindowOwnerPID or kCGWindowBounds
NullEntry == [null |-> TRUE, owner |-> <<>>, bounds |-> <<>>]
Windows ==
    {NullEntry} \cup [null : {FALSE}, owner : Option(Pids), bounds : Option(Bounds)]

AbsDiff(a, b) == IF a >= b THEN a - b ELSE b - a

\* Mutation: only the size of the window is compared with the display's
IsFullscreenSizeOnly(b, display_width, display_height) ==
    /\ AbsDiff(b.Width, display_width) < Tolerance
    /\ AbsDiff(b.Height, display_height) < Tolerance

\* let is_fullscreen = (width - display_width).abs() < 1.0
\*     && (height - display_height).abs() < 1.0 && x.abs() < 1.0 && y.abs() < 1.0
IsFullscreen(b, display_width, display_height) ==
    /\ AbsDiff(b.Width, display_width) < Tolerance
    /\ AbsDiff(b.Height, display_height) < Tolerance
    /\ AbsDiff(b.X, 0) < Tolerance
    /\ AbsDiff(b.Y, 0) < Tolerance

\* The body of the loop for one entry: continue, or return true
Examine(w, pid, display) ==
    IF w.null THEN "continue"
    ELSE IF w.owner = <<>> THEN "continue"
    ELSE IF w.owner[1] # pid THEN "continue"
    ELSE IF w.bounds = <<>> THEN "continue"
    ELSE IF IsFullscreen(w.bounds[1], display.width, display.height)
    THEN "return" ELSE "continue"

\* Window w is owned by pid and its bounds are the display's, within the
\* tolerance, on x, y, width and height (the record of the entries examined)
OwnedAndMatching(w, pid, display) ==
    /\ w.owner = <<pid>>
    /\ w.bounds # <<>>
    /\ \A k \in {"X", "Y", "Width", "Height"} :
         LET of == IF k = "X" THEN display.x
                   ELSE IF k = "Y" THEN display.y
                   ELSE IF k = "Width" THEN display.width
                   ELSE display.height
         IN AbsDiff(w.bounds[1][k], of) < Tolerance

\* has_fullscreen_window(pid) is called.  cur: the window found fullscreen;
\* some: whether an entry examined so far is owned by pid and matches
NewQuery(pid, display) ==
    [pc |-> "query", pid |-> pid, display |-> display, failed |-> FALSE,
     count |-> 0, i |-> 0, cur |-> <<>>, some |-> FALSE, result |-> FALSE]

\* CGWindowListCopyWindowInfo(on screen only, desktop elements excluded):
\* None, or the list of count windows
WinQuery ==
    /\ win.pc = "query"
    /\ \/ win' = [win EXCEPT !.pc = "done", !.failed = TRUE, !.result = FALSE]
       \/ \E n \in 0..MaxWindows : win' = [win EXCEPT !.pc = "loop", !.count = n]
    /\ UNCHANGED <<current_pid, is_streaming, polling_active, gfn_streaming,
                   running, flags, main, sampler, h, act>>

\* for i in 0..count { .. }: the next entry of the list is examined, or the
\* list is exhausted and false is returned
WinLoop ==
    /\ win.pc = "loop"
    /\ IF win.i = win.count
       THEN win' = [win EXCEPT !.pc = "done", !.result = FALSE]
       ELSE \E w \in Windows :
              LET r == Examine(w, win.pid, win.display) IN
              win' = [win EXCEPT
                        !.i = @ + 1,
                        !.cur = IF r = "return" THEN <<w>> ELSE @,
                        !.some = @ \/ OwnedAndMatching(w, win.pid, win.display),
                        !.pc = IF r = "return" THEN "done" ELSE "loop",
                        !.result = (r = "return")]
    /\ UNCHANGED <<current_pid, is_streaming, polling_active, gfn_streaming,
                   running, flags, main, sampler, h, act>>

InitWindow ==
    /\ current_pid = 0
    /\ is_streaming = FALSE
    /\ polling_active = FALSE
    /\ gfn_streaming = FALSE
    /\ running = TRUE
    /\ flags = 0
    /\ main = [NoLocals EXCEPT !.pc = "none"]
    /\ sampler = EmptyBag
    /\ h = [lastCall |-> "none", anyCall |-> FALSE,
            everFs |-> FALSE, lastHandled |-> "none", scen |-> "fresh",
            scenPid |-> 0, sc |-> NoScenario, watch |-> FALSE]
    /\ act = NoCall
    /\ \E pid \in Pids, display \in Displays : win = NewQuery(pid, display)

NextWindow == WinQuery \/ WinLoop

SpecWindow == InitWindow /\ [][NextWindow]_vars

\* ------------------------------------------------------------- properties

\* C1: whenever no handler or callback is in progress and gfn_streaming is
\* false, the last bring_down / allow_up call the daemon made (the last to
\* return) is not a bring_down: the interface is released when streaming stops.
C1_ReleasedWhenNotStreaming ==
    (AtRest /\ ~gfn_streaming) => h.lastCall # "bring_down"

\* C2: whenever the last lifecycle notification fully handled is a termination
\* (or none has been handled) and nothing is in progress, is_streaming and
\* gfn_streaming are both false.
C2_StreamingOnlyWhileProcessExists ==
    (AtRest /\ main.pc = "idle" /\ h.lastHandled \in {"none", "term"})
        => (~is_streaming /\ ~gfn_streaming)

\* C3: when the daemon has exited after a termination signal, the last
\* bring_down / allow_up call it made (the last to return) is not a bring_down.
C3_ExitNeverLeavesDown ==
    main.pc = "exited" => h.lastCall # "bring_down"

\* C4: with events processed one after another, Launched(p), one
\* StreamStarted(p) and then the termination of p give exactly one bring_down
\* from the process callback and streaming true after StreamStarted, then
\* exactly one allow_up for the termination, streaming false and no pid tracked.
C4_LaunchStreamTerminate ==
    /\ (h.scen = "launched" /\ AtRest /\ main.pc = "idle"
            /\ h.sc.nStarted = 1 /\ h.sc.nEnded = 0)
        => (h.sc.cbDown = 1 /\ h.sc.cbUp = 0 /\ gfn_streaming /\ is_streaming)
    /\ (h.scen = "terminated" /\ AtRest /\ main.pc = "idle"
            /\ h.sc.nStarted = 1 /\ h.sc.nEnded = 0)
        => (h.sc.cbDown = 1 /\ h.sc.cbUp = 1 /\ ~gfn_streaming
            /\ ~is_streaming /\ current_pid = 0)

C4_Witness ==
    /\ h.scen = "terminated" /\ AtRest /\ main.pc = "idle"
    /\ h.lastHandled = "term"
    /\ h.sc.nStarted = 1 /\ h.sc.nEnded = 0
    /\ h.sc.cbDown = 1 /\ h.sc.cbUp = 1

\* C5: as long as no sample has ever found a fullscreen window, no actuator
\* call (is_up, bring_down, allow_up) has been issued, in particular none
\* between a Launched and the Terminated that follows it.
C5_NeverStreamedNoActuation == ~h.everFs => ~h.anyCall

C5_Witness ==
    /\ h.scen = "terminated" /\ AtRest /\ main.pc = "idle"
    /\ h.lastHandled = "term"
    /\ h.sc.samples >= 1 /\ ~h.everFs /\ ~h.anyCall

\* C6: no step of the handler of a termination notification whose pid is not
\* the tracked pid changes polling_active, is_streaming, current_pid or
\* gfn_streaming, and the handler issues no actuator call.
C6_StaleTerminateIsNoOp ==
    [][(main' # main /\ main'.kind = "term" /\ main'.stale)
         => /\ polling_active' = polling_active
            /\ is_streaming' = is_streaming
            /\ current_pid' = current_pid
            /\ gfn_streaming' = gfn_streaming
            /\ main'.calls = <<>>]_vars

\* C7: a link-change handler that found gfn_streaming true has issued, when it
\* returns, is_up and then exactly one bring_down if is_up returned true, and
\* is_up alone if it returned false; no step of the handler changes
\* gfn_streaming.
C7_RaceCorrection ==
    /\ [](main.kind = "link" /\ main.pc = "ret"
            => /\ main.seen = "true" => main.calls = <<"is_up", "bring_down">>
               /\ main.seen = "false" => main.calls = <<"is_up">>)
    /\ [][(main' # main /\ (main.kind = "link" \/ main'.kind = "link"))
            => gfn_streaming' = gfn_streaming]_vars

C7_Witness ==
    /\ main.kind = "link" /\ main.pc = "ret" /\ main.seen = "true"
    /\ main.calls = <<"is_up", "bring_down">>
    /\ gfn_streaming

\* C8: for the samples of one launched process, whenever the daemon runs and
\* the polling thread is between iterations, the StreamStarted events delivered
\* equal the not-fullscreen-to-fullscreen transitions of the samples and the
\* StreamEnded events equal the fullscreen-to-not-fullscreen transitions.
C8_EdgeTriggered ==
    (h.scen = "launched" /\ main.pc \notin {"exited", "failed"}
        /\ \A t \in Threads : PollAtRest(t))
        => (h.sc.nStarted = h.sc.rise /\ h.sc.nEnded = h.sc.fall)

\* three fullscreen samples, one StreamStarted, no StreamEnded
C8_Witness ==
    /\ h.scen = "launched" /\ main.pc = "idle"
    /\ \A t \in Threads : PollAtRest(t)
    /\ h.sc.samples = 3 /\ h.sc.rise = 1 /\ h.sc.fall = 0
    /\ h.sc.nStarted = 1 /\ h.sc.nEnded = 0

\* C9: when run_daemon is about to return Ok after the run loop ended, the
\* shutdown path has issued exactly one allow_up if it read gfn_streaming true
\* and no actuator call if it read false, whether or not allow_up failed.
C9_ShutdownAllowUpOnce ==
    main.pc = "s_exit"
        => main.calls = IF main.seen = "streaming" THEN <<"allow_up">> ELSE <<>>

\* the allow_up of the shutdown path failed and run_daemon still returns Ok
C9_Witness ==
    /\ main.pc = "s_exit" /\ main.seen = "streaming"
    /\ main.calls = <<"allow_up">> /\ main.err

\* C10: no two bring_down / allow_up calls are between their get_flags and
\* their set_flags at the same time.
InReadModifyWrite(pc) == pc \in {"bd_set", "au_set"}

C10_ActuatorCallsExclusive ==
    LET busy == {t \in Threads : InReadModifyWrite(t.pc)} IN
    /\ ~(InReadModifyWrite(main.pc) /\ busy # {})
    /\ \A t \in busy : sampler[t] = 1
    /\ Cardinality(busy) <= 1

\* A polling thread is inside the StreamStarted / StreamEnded arm of the
\* process callback; the run loop is inside a lifecycle or link-change handler
InCallback(t) == t.pc \in {"bd_get", "bd_set", "au_get", "au_set"}
InHandler == main.kind \in {"launch", "term", "link"} /\ main.pc # "idle"

\* C11: a StreamStarted / StreamEnded callback run by a polling thread is never
\* in progress while a Launched / Terminated or link-change handler is in
\* progress on the run loop.
C11_HandlersSerialized ==
    ~(InHandler /\ \E t \in Threads : InCallback(t))

\* The calls of the actuator on its own that have returned, and the flag word
\* each of them found
Clean(c) == c.res = "Ok" /\ c.os = "none"
Before(i) == IF i = 1 THEN act.first ELSE act.hist[i - 1].after
UpBit(f) == IFF_UP * ((f \div IFF_UP) % 2)
OtherBits(f) == f - UpBit(f)

\* C12: two bring_down calls in a row that both succeed leave the flag word
\* the first of them left, for every initial flag word; likewise two allow_up.
C12_Idempotent ==
    act.pc # "none" =>
      \A i \in 1..(Len(act.hist) - 1) :
        LET c == act.hist[i]  d == act.hist[i + 1] IN
        (c.op = d.op /\ c.op \in {"bring_down", "allow_up"}
            /\ Clean(c) /\ Clean(d))
          => d.after = c.after

\* bring_down twice on a word with the up bit and other bits set
C12_Witness ==
    /\ act.pc = "ready" /\ Len(act.hist) = 2
    /\ IsUpFlag(act.first) /\ OtherBits(act.first) # 0
    /\ \A i \in 1..2 : act.hist[i].op = "bring_down" /\ Clean(act.hist[i])
    /\ ~IsUpFlag(flags)

\* C13: a bring_down that succeeds leaves the word it found with the up bit
\* cleared, an allow_up that succeeds leaves it with the up bit set, and
\* bring_down followed by allow_up leaves every other bit as it was.
C13_OnlyUpBit ==
    act.pc # "none" =>
      /\ \A i \in 1..Len(act.hist) :
           LET c == act.hist[i] IN
           /\ (c.op = "bring_down" /\ Clean(c))
                => (UpBit(c.after) = 0 /\ OtherBits(c.after) = OtherBits(Before(i)))
           /\ (c.op = "allow_up" /\ Clean(c))
                => (UpBit(c.after) = IFF_UP
                    /\ OtherBits(c.after) = OtherBits(Before(i)))
      /\ \A i \in 1..(Len(act.hist) - 1) :
           LET c == act.hist[i]  d == act.hist[i + 1] IN
           (c.op = "bring_down" /\ d.op = "allow_up" /\ Clean(c) /\ Clean(d))
             => OtherBits(d.after) = OtherBits(Before(i))

\* bring_down then allow_up on a word with the up bit and other bits set: both
\* calls wrote, and the word is what it was
C13_Witness ==
    /\ act.pc = "ready" /\ Len(act.hist) = 2
    /\ IsUpFlag(act.first) /\ OtherBits(act.first) # 0
    /\ act.hist[1].op = "bring_down" /\ Clean(act.hist[1])
    /\ act.hist[1].after = OtherBits(act.first)
    /\ act.hist[2].op = "allow_up" /\ Clean(act.hist[2])
    /\ flags = act.first

\* A name longer than 15 bytes or with a null byte in it
BadName(name) == Len(name) > 15 \/ \E i \in DOMAIN name : name[i] = NUL

\* C14: a call with a name longer than 15 bytes or containing a null byte has,
\* when it returns, failed with NameTooLong or InvalidName without any system
\* call: no socket was created and no ioctl issued.
C14_ValidationBeforeSyscalls ==
    (act.pc = "done" /\ BadName(act.name))
        => (act.res \in {"NameTooLong", "InvalidName"} /\ act.sys = <<>>)

\* C15: validate_name accepts the names of at most 15 bytes without a null
\* byte, rejects every longer name with NameTooLong, null byte or not, and
\* rejects a name of at most 15 bytes with a null byte with InvalidName.
C15_ValidateName ==
    (act.pc # "none" /\ act.val # "none") =>
        act.val = IF Len(act.name) > 15 THEN "NameTooLong"
                  ELSE IF \E i \in 1..Len(act.name) : act.name[i] = NUL
                       THEN "InvalidName"
                  ELSE "ok"

\* a name of exactly 15 bytes is accepted
C15_Witness ==
    /\ act.pc = "ioctl" /\ Len(act.name) = 15 /\ act.val = "ok"

\* C16: an allow_up during which the OS reported the interface as missing has,
\* when it returns, returned Ok and written no flag word.
C16_AllowUpSoftNotFound ==
    (act.pc = "done" /\ act.op = "allow_up" /\ act.os = "NotFound")
        => (act.res = "Ok" /\ ~act.wrote)

\* C17: a bring_down or is_up during which the OS reported the interface as
\* missing returns NotFound, and bring_down has written no flag word; one
\* during which an ioctl failed otherwise returns an Ioctl error.
C17_HardNotFound ==
    (act.pc = "done" /\ act.op \in {"bring_down", "is_up"})
        => /\ act.os = "NotFound" => (act.res = "NotFound" /\ ~act.wrote)
           /\ act.os = "Ioctl" => act.res = "Ioctl"

\* bring_down on an interface that is up and does not exist
C17_Witness ==
    /\ act.pc = "done" /\ act.op = "bring_down" /\ act.os = "NotFound"
    /\ act.res = "NotFound" /\ act.sys = <<"socket", "SIOCGIFFLAGS">>
    /\ IsUpFlag(flags)

\* The actuator call of the callback polling thread t runs fails and returns
PollCallFails(t) ==
    /\ InCallback(t)
    /\ sampler' = (sampler (-) SetToBag({t}))
                      (+) SetToBag({[t EXCEPT !.pc = "top", !.fl = 0,
                                              !.err = TRUE]})

TargetsRunning(apps) == {apps[i].pid : i \in {j \in DOMAIN apps : apps[j].target}}

\* C19: before the running applications are queried no event has been
\* delivered; once they are, and until the run loop is entered, exactly one
\* Launched has been delivered if the target was running, with the pid of a
\* running target, and its polling thread is started before the interface
\* monitor is; if the target was not running no event has been delivered.  No
\* notification has been handled by then.
C19_StartupReconciliation ==
    /\ main.pc = "start"
         => (h.scen = "fresh" /\ current_pid = 0 /\ sampler = EmptyBag)
    /\ main.kind = "startup" =>
         /\ h.lastHandled = "none"
         /\ IF TargetsRunning(main.apps) = {}
            THEN h.scen = "fresh" /\ current_pid = 0 /\ sampler = EmptyBag
                 /\ ~polling_active
            ELSE /\ h.scen = "launched" /\ h.scenPid = main.pid
                 /\ main.pid \in TargetsRunning(main.apps)
                 /\ current_pid = main.pid
                 /\ main.pc = "im_start"
                      => (polling_active /\ BagCardinality(sampler) = 1)

\* two instances of the target were running: one Launched, one polling thread
C19_Witness ==
    /\ main.kind = "startup" /\ main.pc = "im_start"
    /\ Len(main.apps) = 2 /\ Cardinality(TargetsRunning(main.apps)) = 2
    /\ h.scen = "launched" /\ current_pid = main.apps[1].pid
    /\ BagCardinality(sampler) = 1

\* C20: when run_daemon has returned an error because a monitor failed to
\* start, no actuator call has been issued (and the run loop was not entered).
C20_StartupFailureFatal ==
    main.pc = "failed" => (~h.anyCall /\ h.lastHandled = "none")

\* C21: once the handler of the termination of the one launched process has
\* returned, no StreamStarted and no StreamEnded of a polling thread is
\* delivered to the process callback any more.
C21_NoEventAfterStop ==
    [][(h.scen = "terminated" /\ h.lastHandled = "term"
          /\ h'.scen = "terminated")
         => (h'.sc.nStarted = h.sc.nStarted /\ h'.sc.nEnded = h.sc.nEnded)]_vars

\* C23: never have two polling threads both passed their polling_active
\* checks and taken a sample of the windows at the same time.
C23_OneSampler ==
    LET sampling == {t \in Threads : t.pc = "load"} IN
    /\ Cardinality(sampling) <= 1
    /\ \A t \in sampling : sampler[t] = 1

\* C24: while no process is tracked, the streaming flag is false and the run
\* loop is between handlers, no step (a StreamStarted, StreamEnded or
\* link-change event among them) makes the streaming flag true.
C24_IdleIgnoresEvents ==
    [][(current_pid = 0 /\ main.pc = "idle" /\ ~gfn_streaming)
         => ~gfn_streaming']_vars

\* C25: a link-change handler that found the streaming flag false has made no
\* actuator call when it returns, and the step that handles the event changes
\* neither the streaming flag, nor the flag word, nor the record of calls.
C25_LinkChangeIgnoredWhenIdle ==
    /\ []((main.kind = "link" /\ main.seen = "idle")
            => (main.pc = "ret" /\ main.calls = <<>> /\ ~main.err))
    /\ [][(main.pc = "idle" /\ main'.kind = "link" /\ ~gfn_streaming)
            => (main'.seen = "idle" /\ gfn_streaming' = gfn_streaming
                /\ flags' = flags /\ h' = h)]_vars

\* a link-change event ignored with the interface up, after calls were made
C25_Witness ==
    /\ main.kind = "link" /\ main.seen = "idle" /\ main.pc = "ret"
    /\ IsUpFlag(flags) /\ h.anyCall /\ ~gfn_streaming

\* C29: after the first Launched and before any StreamStarted no actuator call
\* has been issued and the streaming flag is false; when the launch handler is
\* about to return it has made no actuator call, the launched pid is tracked
\* and its polling thread is started.
C29_LaunchStartsSamplerOnly ==
    /\ (h.scen = "launched" /\ h.sc.nStarted = 0)
         => (~h.anyCall /\ ~gfn_streaming)
    /\ (main.kind \in {"launch", "startup"} /\ main.pid # 0
            /\ main.pc \in {"ret", "im_start"})
         => (main.calls = <<>> /\ current_pid = main.pid /\ polling_active
             /\ BagCardinality(sampler) >= 1)

\* the first launch notification handled, its polling thread has sampled
C29_Witness ==
    /\ h.scen = "launched" /\ h.sc.nStarted = 0 /\ h.sc.samples >= 1
    /\ main.kind = "launch" /\ main.pc = "ret"
    /\ ~h.anyCall /\ BagCardinality(sampler) = 1

\* C26: no termination signal delivered after the handlers are installed is
\* dropped: when the handler has run the running flag is false (and the run
\* loop then leaves at its next test).
C26_SignalStopsLoop == main.seen = "null" => ~running

\* C28: until ProcessMonitor::start is called the monitor is idle: current_pid
\* is 0, is_streaming and polling_active are false, no polling thread exists, no
\* event has been delivered to the callback and no actuator call was made.
C28_InitiallyIdle ==
    main.pc \in {"boot", "installed", "start"} =>
        /\ current_pid = 0 /\ ~is_streaming /\ ~polling_active
        /\ sampler = EmptyBag
        /\ h.scen = "fresh" /\ h.sc = NoScenario /\ h.lastHandled = "none"
        /\ ~h.anyCall /\ ~gfn_streaming

C28_Witness ==
    /\ main.pc = "start"
    /\ <<current_pid, is_streaming, polling_active>> = <<0, FALSE, FALSE>>
    /\ sampler = EmptyBag /\ h.scen = "fresh"


\* The main thread's own code, as opposed to the arrival of an event: start-up,
\* a handler that has begun and the shutdown path
MainRuns == main.pc # "idle" /\ MainStep

\* The run that keeps the record of stopped threads, with the scheduling the
\* program can count on: the main thread's code is not held up for ever, the
\* run loop tests the running flag after every tick of one second however many
\* events arrive, and no polling thread, of a terminated process or not, is
\* held up for ever at any place of its loop (thread::sleep returns, the
\* callbacks take no lock).
SpecLive ==
    /\ Boot(TRUE)
    /\ [][Next]_vars
    /\ WF_vars(MainRuns)
    /\ SF_vars(RunLoopExit)
    /\ \A pc \in PollPlaces, stopped \in BOOLEAN :
         WF_vars(\E t \in Threads :
                    t.pc = pc /\ t.stopped = stopped /\ PollStep(t))

\* C22: the polling thread started for a process that has terminated
\* eventually leaves its loop, whatever is handled after the termination.
C22_StoppedSamplerExits ==
    (\E t \in Threads : t.stopped) ~> ~(\E t \in Threads : t.stopped)


\* The bring_down of the StreamStarted callback has just failed: the polling
\* thread of the single launched process is back at the top of its loop with
\* the error logged, and no StreamEnded was delivered
StartedBringDownFailed ==
    /\ h.scen = "launched" /\ h.sc.nStarted = 1 /\ h.sc.nEnded = 0
    /\ \E t \in Threads : t.pc = "top" /\ t.err

\* The link-change handler, begun with gfn_streaming true, completes its is_up
\* query in this step, with the interface up
RetryQueried ==
    /\ main.kind = "link" /\ main.pc = "k_isup" /\ main' # main
    /\ IsUpFlag(flags)
    /\ StartedBringDownFailed

\* C30 as stated: after a failed bring_down of StreamStarted, with the
\* interface still up, the link-change handler that runs while gfn_streaming is
\* true issues bring_down again.
C30_FailedBringDownRetried ==
    [][RetryQueried => (main'.pc = "bd_get" /\ main'.calls = <<"is_up", "bring_down">>)]_vars

\* C30, amended: a link-change handled while gfn_streaming is true always
\* queries is_up; after a failed bring_down of StreamStarted, with the interface
\* still up, it issues bring_down again when the query succeeds, and makes no
\* further call when the query itself fails.
C30_RetriedWhenQuerySucceeds ==
    /\ [][(main.pc = "idle" /\ main'.kind = "link" /\ gfn_streaming)
            => (main'.pc = "k_isup" /\ main'.calls = <<"is_up">>)]_vars
    /\ [][RetryQueried =>
             IF main'.seen = "err"
             THEN main'.pc = "ret" /\ main'.calls = <<"is_up">> /\ h' = h
             ELSE /\ main'.seen = "true"
                  /\ main'.pc = "bd_get"
                  /\ main'.calls = <<"is_up", "bring_down">>]_vars

C30_Witness ==
    /\ main.kind = "link" /\ main.seen = "true" /\ main.pc = "bd_get"
    /\ main.calls = <<"is_up", "bring_down">>
    /\ gfn_streaming /\ IsUpFlag(flags)
    /\ StartedBringDownFailed


C31_PullRecheck ==
    (gfn_streaming /\ IsUpFlag(flags) /\ main.pc = "idle")
        ~> \/ main.pc \in {"k_isup", "exited", "failed"}
           \/ ~gfn_streaming
           \/ ~IsUpFlag(flags)


\* The call the actuator is returning from found the up bit as it wants it
AlreadyAsWanted ==
    /\ act.pc = "done"
    /\ LET pre == Before(Len(act.hist) + 1) IN
       \/ act.op = "bring_down" /\ ~IsUpFlag(pre)
       \/ act.op = "allow_up" /\ IsUpFlag(pre)

\* C32: a bring_down on an interface whose up bit is clear, and an allow_up on
\* one whose up bit is set, issue no SIOCSIFFLAGS and leave the flag word as it
\* was; when the flag word could be read they return Ok.
C32_NoWriteWhenNotNeeded ==
    (act.pc # "none" /\ AlreadyAsWanted) =>
        /\ \A k \in DOMAIN act.sys : act.sys[k] # "SIOCSIFFLAGS"
        /\ ~act.wrote
        /\ flags = Before(Len(act.hist) + 1)
        /\ (act.sys = <<"socket", "SIOCGIFFLAGS">> /\ act.os = "none")
              => act.res = "Ok"

\* A second bring_down, on the word a first one has just written
C32_Witness ==
    /\ act.pc # "none" /\ AlreadyAsWanted
    /\ act.op = "bring_down" /\ act.res = "Ok"
    /\ act.sys = <<"socket", "SIOCGIFFLAGS">>
    /\ Len(act.hist) = 1 /\ act.hist[1].op = "bring_down" /\ Clean(act.hist[1])
    /\ IsUpFlag(act.first) /\ OtherBits(flags) # 0


\* C33: the link-change handler never calls allow_up; when its is_up query
\* fails it returns having made no other call; no step of it changes
\* gfn_streaming (or the monitor's atomics), and the only write of the flag
\* word it makes is the one of bring_down, after is_up returned true.
C33_LinkHandlerFrame ==
    /\ [](main.kind = "link" =>
            /\ \A k \in DOMAIN main.calls : main.calls[k] # "allow_up"
            /\ main.pc \notin {"au_get", "au_set"}
            /\ main.seen = "err" => (main.pc = "ret" /\ main.calls = <<"is_up">>))
    /\ [][(main' # main /\ (main.kind = "link" \/ main'.kind = "link")) =>
            /\ <<gfn_streaming, is_streaming, current_pid, polling_active>>'
                 = <<gfn_streaming, is_streaming, current_pid, polling_active>>
            /\ flags' # flags =>
                 (main.pc = "bd_set" /\ main.seen = "true"
                  /\ flags' = ClearUp(main.fl))]_vars

\* the is_up query of the handler failed while streaming, with the interface up
C33_Witness ==
    /\ main.kind = "link" /\ main.seen = "err" /\ main.pc = "ret"
    /\ main.calls = <<"is_up">>
    /\ gfn_streaming /\ IsUpFlag(flags)


\* C34: the events handed to the callback for the one process launched so far
\* are Launched, then StreamStarted and StreamEnded in turn, then Terminated:
\* no event is out of that order, and once the handler of the termination has
\* returned the last event is Terminated.
C34_EventProtocol ==
    /\ h.scen \in {"launched", "terminated"} => h.sc.ev # "violated"
    /\ (h.scen = "terminated" /\ h.lastHandled = "term") => h.sc.ev = "Terminated"

\* C35: no allow_up is issued by the daemon unless a bring_down was issued
\* since the allow_up before it.
C35_NoUnpairedAllowUp == h.sc.pair # "unpaired"

\* C36: whenever the daemon runs and no handler, callback or polling
\* iteration is in progress, is_streaming equals gfn_streaming.
C36_CopiesAgreeAtRest ==
    (AtRest /\ main.pc = "idle") => (is_streaming = gfn_streaming)


\* The daemon runs and tracks a process that has a fullscreen window: every
\* sample a polling thread holds is true, except those of the thread of the
\* process that has terminated, whose pid owns no window any more
KeepsFullscreen ==
    /\ current_pid # 0 /\ running /\ main.pc \notin {"exited", "failed"}
    /\ \A t \in Threads : t.pc = "load" => (t.fs <=> ~t.stopped)

\* C37: if from some point on the tracked process is not terminated and keeps
\* a fullscreen window, then from some point on gfn_streaming stays true (a
\* StreamStarted was delivered, with its bring_down, and no StreamEnded follows).
C37_EventuallySuppressed == <>[]KeepsFullscreen => <>[]gfn_streaming

====
